---------------------------- MODULE Spec2Model ----------------------------
(***************************************************************************)
(* Model of tasks.py, the build-automation script of the                   *)
(* RPi_Pico_SAO_Host KiCad project: the path constants, the filesystem     *)
(* helper rm, the kicad-cli invocation functions and the invoke tasks      *)
(* clean, env, check and release.                                          *)
(*                                                                         *)
(* Text is modelled as a sequence of string pieces.  A file name is a      *)
(* sequence of pieces (the piece "." starts a suffix), a path is a         *)
(* sequence of names, a command-line token is a sequence of pieces whose   *)
(* first piece is "--" when the token is a flag, and a command line is     *)
(* the pieces of its tokens joined by the piece " ".                       *)
(***************************************************************************)
EXTENDS Integers, Sequences, FiniteSets, TLC

VARIABLES
    kicad,      \* KICAD_CLI, the value get_kicad_cli_path() returned at import
    call,       \* the last direct call of a tool invocation function
    res,        \* what that call did: command line, printed lines, raised
    task,       \* the task given to invoke ("none" before the invocation)
    pc,         \* index in Plan(task) of the next step to run
    steps,      \* the steps executed so far, in order, with their arguments
    printed,    \* the lines printed so far by the steps of the task
    outcome,    \* "idle", "running", "success" or "failed"
    fs,         \* the filesystem: kind of entry at each path of Paths
    fs0,        \* the filesystem when the last rm or clean was called
    fscall,     \* the last rm or clean call with its arguments
    exc         \* the exception that call raised ("none" if it returned)

vars == <<kicad, call, res, task, pc, steps, printed, outcome, fs, fs0, fscall, exc>>

toolVars == <<call, res>>
taskVars == <<task, pc, steps, printed, outcome>>
fsVars == <<fs, fs0, fscall, exc>>

(***************************************************************************)
(* Bounds of the model.                                                    *)
(***************************************************************************)
\* Subprocess exit statuses range over 0..MaxExit.
MaxExit == 6
\* At most MaxVanish paths are removed by another process during one call.
MaxVanish == 1

ExitCodes == 0..MaxExit

(***************************************************************************)
(* Text helpers.                                                           *)
(***************************************************************************)
RECURSIVE Concat(_)
\* The string made of the pieces of a name, in order.
Concat(pieces) ==
    IF pieces = <<>> THEN "" ELSE Head(pieces) \o Concat(Tail(pieces))

RECURSIVE PathStr(_)
\* str(path): the names of the path joined by "/".
PathStr(path) ==
    IF path = <<>> THEN "."
    ELSE IF Len(path) = 1 THEN Concat(path[1])
    ELSE Concat(path[1]) \o "/" \o PathStr(Tail(path))

RECURSIVE Join(_)
\* " ".join(tokens): the pieces of the tokens, separated by the piece " ".
Join(tokens) ==
    IF tokens = <<>> THEN <<>>
    ELSE IF Len(tokens) = 1 THEN tokens[1]
    ELSE tokens[1] \o <<" ">> \o Join(Tail(tokens))

RECURSIVE SplitFrom(_, _)
\* The pieces of cmd split at each piece " ": acc is the token being read.
SplitFrom(cmd, acc) ==
    IF cmd = <<>> THEN <<acc>>
    ELSE IF Head(cmd) = " " THEN <<acc>> \o SplitFrom(Tail(cmd), <<>>)
    ELSE SplitFrom(Tail(cmd), Append(acc, Head(cmd)))

\* The tokens the shell reads from a command line.
Tokens(cmd) == IF cmd = <<>> THEN <<>> ELSE SplitFrom(cmd, <<>>)

\* A flag without a value, a flag with a value, a flag with a quoted value.
Flag(name) == <<"--", name>>
FlagV(name, value) == <<"--", name, "=", value>>
FlagQ(name, value) == <<"--", name, "=", "\"", value, "\"">>
\* A word, and a quoted word.
Word(w) == <<w>>
Quoted(w) == <<"\"", w, "\"">>

IsFlag(token) == token # <<>> /\ token[1] = "--"

\* The token without the quotes around it.
Unquote(token) ==
    IF Len(token) >= 2 /\ token[1] = "\"" /\ token[Len(token)] = "\""
    THEN SubSeq(token, 2, Len(token) - 1)
    ELSE token

(***************************************************************************)
(* pathlib operations used by the module.                                  *)
(***************************************************************************)
\* a / b
Div(a, b) == a \o b

\* path.parent and path.name
Parent(path) == SubSeq(path, 1, Len(path) - 1)
Name(path) == path[Len(path)]

\* Index of the piece "." that starts the suffix of a name, 0 if none.
SuffixAt(name) ==
    LET dots == {i \in 2..Len(name) : name[i] = "."}
    IN IF dots = {} THEN 0 ELSE CHOOSE i \in dots : \A j \in dots : j <= i

\* PurePath.stem
Stem(name) ==
    IF SuffixAt(name) = 0 THEN name ELSE SubSeq(name, 1, SuffixAt(name) - 1)

\* Mutant of WithName: the name is not replaced.
WithNameKept(path, name) == path

\* PurePath.with_suffix(suffix) and PurePath.with_name(name)
WithSuffix(path, suffix) == Div(Parent(path), <<Stem(Name(path)) \o suffix>>)
WithName(path, name) == Div(Parent(path), <<name>>)

(***************************************************************************)
(* Project metadata and the output path tree (tasks.py lines 50-112).      *)
(***************************************************************************)
PROJECT_NAME == "RPi_Pico_SAO_Host"
PROJECT_VERSION_MAJOR == "2"
PCB_PART_NUMBER == "100092"
PCB_REV == "A"
SCH_PART_NUMBER == "100093"
SCH_REV == "A"
PCA_PART_NUMBER == "100094"
PCA_REV == "A"

SCH_PATH == <<<<PROJECT_NAME, ".", "kicad_sch">>>>
PCB_PATH == <<<<PROJECT_NAME, ".", "kicad_pcb">>>>

OUTPUT_PATH == <<<<"output">>, <<PROJECT_NAME, "_v", PROJECT_VERSION_MAJOR>>>>

REPORT_OUTPUT_PATH == Div(OUTPUT_PATH, <<<<"Reports">>>>)
ERC_REPORT_PATH ==
    Div(REPORT_OUTPUT_PATH,
        <<<<PROJECT_NAME, "_v", PROJECT_VERSION_MAJOR, "_ERC_report", ".", "txt">>>>)
DRC_REPORT_PATH ==
    Div(REPORT_OUTPUT_PATH,
        <<<<PROJECT_NAME, "_v", PROJECT_VERSION_MAJOR, "_DRC_report", ".", "txt">>>>)

PCA_OUTPUT_PATH ==
    Div(OUTPUT_PATH,
        <<<<PROJECT_NAME, "_v", PROJECT_VERSION_MAJOR, "_PCA_", PCA_PART_NUMBER,
            "_Rev_", PCA_REV>>>>)
SCH_OUTPUT_PATH == Div(PCA_OUTPUT_PATH, <<<<"Schematic">>>>)
BOM_OUTPUT_PATH == Div(PCA_OUTPUT_PATH, <<<<"BOM">>>>)
SCH_PDF_PATH ==
    Div(SCH_OUTPUT_PATH,
        <<<<PROJECT_NAME, "_v", PROJECT_VERSION_MAJOR, "_Schematic_",
            SCH_PART_NUMBER, "_Rev_", SCH_REV, ".", "pdf">>>>)
SCH_SVG_PATH ==
    Div(SCH_OUTPUT_PATH,
        <<<<PROJECT_NAME, "_v", PROJECT_VERSION_MAJOR, "_Schematic_",
            SCH_PART_NUMBER, "_Rev_", SCH_REV, "_SVG">>>>)
SCH_PNG_PATH ==
    Div(SCH_OUTPUT_PATH,
        <<<<PROJECT_NAME, "_v", PROJECT_VERSION_MAJOR, "_Schematic_",
            SCH_PART_NUMBER, "_Rev_", SCH_REV, ".", "png">>>>)
BOM_PATH ==
    Div(BOM_OUTPUT_PATH,
        <<<<PROJECT_NAME, "_v", PROJECT_VERSION_MAJOR, "_ECAD_BOM_",
            PCA_PART_NUMBER, "_Rev_", PCA_REV, ".", "csv">>>>)
PCA_RENDER_PATH == Div(PCA_OUTPUT_PATH, <<<<"Renders">>>>)

PCB_OUTPUT_PATH ==
    Div(OUTPUT_PATH,
        <<<<PROJECT_NAME, "_v", PROJECT_VERSION_MAJOR, "_PCB_", PCB_PART_NUMBER,
            "_Rev_", PCB_REV>>>>)
GERBERS_PATH == Div(PCB_OUTPUT_PATH, <<<<"Gerbers">>>>)
ODB_PATH == Div(Div(PCB_OUTPUT_PATH, <<<<"ODB++">>>>), <<<<PROJECT_NAME, ".", "zip">>>>)
PCB_PDF_PATH == Div(PCB_OUTPUT_PATH, <<<<"PDF">>>>)
DRILL_FILES_PATH == Div(PCB_OUTPUT_PATH, <<<<"Drill_Files">>>>)
IPCD356_PATH == Div(Div(PCB_OUTPUT_PATH, <<<<"Netlist">>>>), <<<<PROJECT_NAME, ".", "d356">>>>)
POSITION_PATH == Div(Div(PCB_OUTPUT_PATH, <<<<"Position">>>>), <<<<PROJECT_NAME, ".", "pos">>>>)
PCB_RENDER_PATH == Div(OUTPUT_PATH, <<<<"Renders">>>>)

\* The values get_kicad_cli_path() can return.
KicadCliPaths ==
    { "/Applications/KiCad_9.0/KiCad.app/Contents/MacOS/kicad-cli",
      "/Applications/KiCad/KiCad.app/Contents/MacOS/kicad-cli",
      "kicad-cli" }


(***************************************************************************)
(* Tool invocation layer (tasks.py lines 206-562).  Each function builds   *)
(* its command line, runs it and interprets the exit status.  The result   *)
(* is the command line handed to context.run, the lines printed, and       *)
(* whether the function raised (re-raised UnexpectedExit).                 *)
(***************************************************************************)
\* The exit status kicad-cli documents for "violations found".
ViolationCode == 5

\* context.run(cmd): invoke raises UnexpectedExit on a non-zero exit status.
ContextRun(cmd, exited) == [cmd |-> cmd, exited |-> exited, failed |-> exited # 0]

\* The line print() writes for an f-string "\nERROR: <what> (<exited>)".
ErrorLine(what, exited) ==
    <<"\nERROR: ", what, "unexpected exit code", " (", ToString(exited), ")">>

\* The result of a function that printed `lines` and ran `run`.
Result(cmd, lines, run) == [cmd |-> cmd, printed |-> lines, raised |-> run.failed]

\* Mutant of GenericExcept: the except clause prints and does not re-raise.
GenericExceptSwallow(info, what, run) ==
    [cmd |-> run.cmd,
     printed |-> IF run.failed THEN <<info, ErrorLine(what, run.exited)>> ELSE <<info>>,
     raised |-> FALSE]

\* The except clause shared by all functions but ERC and DRC: one generic line.
GenericExcept(info, what, run) ==
    Result(run.cmd,
           IF run.failed THEN <<info, ErrorLine(what, run.exited)>> ELSE <<info>>,
           run)

kicad_version(exited) ==
    LET cmd == Join(<<Word(kicad), Word("version"), FlagV("format", "about")>>)
    IN Result(cmd,
              IF exited # 0
              THEN <<ErrorLine("KiCad version check failed with an ", exited)>>
              ELSE <<>>,
              ContextRun(cmd, exited))

\* Mutant of CheckExcept: status 5 is not told apart from the other statuses.
CheckExceptGeneric(info, violations, what, report_path, run) ==
    Result(run.cmd,
           IF run.failed THEN <<info, ErrorLine(what, run.exited)>> ELSE <<info>>,
           run)

\* The except clause of schematic_erc and pcb_drc (lines 241-251, 344-354).
CheckExcept(info, violations, what, report_path, run) ==
    Result(run.cmd,
           IF ~run.failed THEN <<info>>
           ELSE IF run.exited = ViolationCode
           THEN <<info,
                  <<"\nERROR: ", violations>>,
                  <<"Check ", PathStr(report_path), " for details.">>>>
           ELSE <<info, ErrorLine(what, run.exited)>>,
           run)

schematic_erc(schematic_path, report_path, exited) ==
    LET cmd == Join(<<Word(kicad), Word("sch"), Word("erc"),
                      FlagV("output", PathStr(report_path)),
                      Flag("severity-warning"),
                      Flag("severity-error"),
                      Flag("exit-code-violations"),
                      Word(PathStr(schematic_path))>>)
    IN CheckExcept(<<"Running ERC on the schematic...">>,
                   "ERC violations found in the schematic.",
                   "ERC failed with an ",
                   report_path, ContextRun(cmd, exited))

schematic_export_pdf(schematic_path, pdf_path, exited) ==
    LET cmd == Join(<<Word(kicad), Word("sch"), Word("export"), Word("pdf"),
                      FlagQ("output", PathStr(pdf_path)),
                      Flag("black-and-white"),
                      Flag("no-background-color"),
                      Quoted(PathStr(schematic_path))>>)
    IN GenericExcept(<<"Exporting Schematic PDF...">>,
                     "PDF export from the schematic failed with an ",
                     ContextRun(cmd, exited))

schematic_export_svg(schematic_path, svg_path, exited) ==
    LET cmd == Join(<<Word(kicad), Word("sch"), Word("export"), Word("svg"),
                      FlagQ("output", PathStr(svg_path)),
                      Flag("black-and-white"),
                      Flag("no-background-color"),
                      Quoted(PathStr(schematic_path))>>)
    IN GenericExcept(<<"Exporting Schematic SVG...">>,
                     "SVG export from the schematic failed with an ",
                     ContextRun(cmd, exited))

schematic_export_bom(schematic_path, bom_path, exited) ==
    LET cmd == Join(<<Word(kicad), Word("sch"), Word("export"), Word("bom"),
                      FlagQ("output", PathStr(bom_path)),
                      FlagQ("preset", "Common Ground Electronics BOM"),
                      FlagQ("format-preset", "CSV"),
                      Quoted(PathStr(schematic_path))>>)
    IN GenericExcept(<<"Exporting assembly BOM...">>,
                     "BOM export from the schematic failed with an ",
                     ContextRun(cmd, exited))

pcb_drc(pcb_path, report_path, exited) ==
    LET cmd == Join(<<Word(kicad), Word("pcb"), Word("drc"),
                      FlagV("output", PathStr(report_path)),
                      Flag("schematic-parity"),
                      Flag("severity-warning"),
                      Flag("severity-error"),
                      Flag("exit-code-violations"),
                      Word(PathStr(pcb_path))>>)
    IN CheckExcept(<<"Running DRC on the PCB...">>,
                   "DRC violations found in the PCB.",
                   "DRC failed with an ",
                   report_path, ContextRun(cmd, exited))

pcb_export_gerbers(pcb_path, gerbers_path, layers, exited) ==
    LET cmd == Join(<<Word(kicad), Word("pcb"), Word("export"), Word("gerbers"),
                      FlagV("output", PathStr(gerbers_path)),
                      FlagV("layers", layers),
                      Flag("exclude-value"),
                      Flag("use-drill-file-origin"),
                      Flag("no-protel-ext"),
                      Word(PathStr(pcb_path))>>)
    IN GenericExcept(<<"Exporting Gerbers from the PCB...">>,
                     "Gerber export from the PCB failed with an ",
                     ContextRun(cmd, exited))

pcb_export_odb(pcb_path, odb_path, exited) ==
    LET cmd == Join(<<Word(kicad), Word("pcb"), Word("export"), Word("odb"),
                      FlagV("output", PathStr(odb_path)),
                      Word(PathStr(pcb_path))>>)
    IN GenericExcept(<<"Exporting ODB++ from the PCB...">>,
                     "Gerber export from the PCB failed with an ",
                     ContextRun(cmd, exited))

\* cmd_list of pcb_export_pdf once the optional flags are appended
\* (lines 416-446).
PcbPdfCmdList(pcb_path, pdf_path, layers, mirror, multipage, black_and_white) ==
    <<Word(kicad), Word("pcb"), Word("export"), Word("pdf"),
      FlagV("output", PathStr(pdf_path)),
      FlagV("layers", layers),
      Flag("exclude-value"),
      Flag("include-border-title"),
      FlagV("common-layers", "Edge.Cuts"),
      FlagV("drill-shape-opt", "0"),
      Word(PathStr(pcb_path))>>
    \o (IF mirror THEN <<Flag("mirror")>> ELSE <<>>)
    \o (IF multipage THEN <<Flag("mode-multipage")>> ELSE <<Flag("mode-separate")>>)
    \o (IF black_and_white THEN <<Flag("black-and-white")>> ELSE <<>>)

pcb_export_pdf(pcb_path, pdf_path, layers, mirror, multipage, black_and_white, exited) ==
    LET cmd == Join(PcbPdfCmdList(pcb_path, pdf_path, layers, mirror, multipage,
                                  black_and_white))
    IN GenericExcept(<<"Exporting PDF from the PCB...">>,
                     "PDF export from the PCB failed with an ",
                     ContextRun(cmd, exited))

pcb_export_drill(pcb_path, drill_file_path, exited) ==
    LET cmd == Join(<<Word(kicad), Word("pcb"), Word("export"), Word("drill"),
                      FlagV("output", PathStr(drill_file_path)),
                      FlagV("drill-origin", "plot"),
                      Flag("generate-map"),
                      Word(PathStr(pcb_path))>>)
    IN GenericExcept(<<"Exporting drill file from the PCB...">>,
                     "Drill file export from the PCB failed with an ",
                     ContextRun(cmd, exited))

pcb_export_ipcd356(pcb_path, ipcd356_path, exited) ==
    LET cmd == Join(<<Word(kicad), Word("pcb"), Word("export"), Word("ipcd356"),
                      FlagV("output", PathStr(ipcd356_path)),
                      Word(PathStr(pcb_path))>>)
    IN GenericExcept(<<"Exporting IPC-D-356 netlist from the PCB...">>,
                     "IPC-D-356 netlist export from the PCB failed with an ",
                     ContextRun(cmd, exited))

\* Mutant of pcb_export_pos: a flag is listed after the input path.
pcb_export_pos_flag_last(pcb_path, position_path, exited) ==
    LET cmd == Join(<<Word(kicad), Word("pcb"), Word("export"), Word("pos"),
                      FlagV("output", PathStr(position_path)),
                      Word(PathStr(pcb_path)),
                      Flag("use-drill-file-origin")>>)
    IN GenericExcept(<<"Exporting position file from the PCB...">>,
                     "position file export from the PCB failed with an ",
                     ContextRun(cmd, exited))

pcb_export_pos(pcb_path, position_path, exited) ==
    LET cmd == Join(<<Word(kicad), Word("pcb"), Word("export"), Word("pos"),
                      FlagV("output", PathStr(position_path)),
                      Flag("use-drill-file-origin"),
                      Word(PathStr(pcb_path))>>)
    IN GenericExcept(<<"Exporting position file from the PCB...">>,
                     "position file export from the PCB failed with an ",
                     ContextRun(cmd, exited))

\* cmd_list of pcb_render once the optional flag is appended (lines 539-554).
PcbRenderCmdList(pcb_path, render_path, width, height, side, background, perspective, zoom) ==
    <<Word(kicad), Word("pcb"), Word("render"),
      FlagV("output", PathStr(render_path)),
      FlagV("width", ToString(width)),
      FlagV("height", ToString(height)),
      FlagV("side", side),
      FlagV("background", background),
      FlagV("zoom", ToString(zoom)),
      Word(PathStr(pcb_path))>>
    \o (IF perspective THEN <<Flag("perspective")>> ELSE <<>>)

pcb_render(pcb_path, render_path, width, height, side, background, perspective, zoom, exited) ==
    LET cmd == Join(PcbRenderCmdList(pcb_path, render_path, width, height, side,
                                     background, perspective, zoom))
    IN GenericExcept(<<"Generating render from the PCB...">>,
                     "IPC-D-356 netlist export from the PCB failed with an ",
                     ContextRun(cmd, exited))

(***************************************************************************)
(* Raster conversion helper (tasks.py lines 157-203).  An optional         *)
(* argument is a set: {} for None, {v} for the value v.  `svg` is what the *)
(* libraries do with the file: "ok", "no_drawing" (svg2rlg returns None)   *)
(* or "save_error" (pixmap.save raises OSError).  The result lists the     *)
(* effects in the order they happen.                                       *)
(***************************************************************************)
None == {}
Some(v) == {v}

SvgOutcomes == {"ok", "no_drawing", "save_error"}

\* Mutant of svg_to_png: scale and dpi are not checked against each other.
svg_to_png_unchecked(svg_path, png_path, scale, dpi, alpha, svg) ==
    LET info == <<"Generating ", PathStr(png_path), " from ", PathStr(svg_path), "...">>
        done(effects, e) ==
            [cmd |-> <<>>, printed |-> <<info>>, raised |-> e # "none",
             exc |-> e, effects |-> effects, png_path |-> png_path]
        rendered ==
            <<"svg2rlg">>
            \o (IF scale # None THEN <<"rescale">> ELSE <<>>)
            \o <<"drawToString", "load_page", "get_pixmap", "ensure_dir">>
    IN IF svg = "no_drawing" THEN done(<<"svg2rlg">>, "ValueError")
       ELSE IF svg = "save_error" THEN done(rendered, "OSError")
       ELSE done(Append(rendered, "save"), "none")

svg_to_png(svg_path, png_path, scale, dpi, alpha, svg) ==
    LET info == <<"Generating ", PathStr(png_path), " from ", PathStr(svg_path), "...">>
        done(effects, e) ==
            [cmd |-> <<>>, printed |-> <<info>>, raised |-> e # "none",
             exc |-> e, effects |-> effects, png_path |-> png_path]
    IN IF scale # None /\ dpi # None
       THEN done(<<>>, "ValueError")
       ELSE IF svg = "no_drawing"
       THEN done(<<"svg2rlg">>, "ValueError")
       ELSE LET rendered ==
                    <<"svg2rlg">>
                    \o (IF scale # None THEN <<"rescale">> ELSE <<>>)
                    \o <<"drawToString", "load_page", "get_pixmap", "ensure_dir">>
            IN IF svg = "save_error"
               THEN done(rendered, "OSError")
               ELSE done(Append(rendered, "save"), "none")

(***************************************************************************)
(* Direct calls of the tool invocation functions, with the paths and       *)
(* options the module configures.                                          *)
(***************************************************************************)
FrontLayers == "F.Cu,F.Paste,F.Silkscreen,F.Mask,User.Drawings,User.Comments,Edge.Cuts,F.Fab,User.1"
BackLayers == "B.Cu,B.Paste,B.Silkscreen,B.Mask,B.Fab,User.2"
GerberLayers == "F.Cu,B.Cu,F.Paste,B.Paste,F.Silkscreen,B.Silkscreen,F.Mask,B.Mask,User.Drawings,User.Comments,Edge.Cuts,F.Fab,B.Fab,User.1,User.2"

ReportPaths == {ERC_REPORT_PATH, DRC_REPORT_PATH}
LayerSets == {FrontLayers, BackLayers, GerberLayers}
RenderPaths == {Div(PCA_RENDER_PATH, <<<<"top", ".", "png">>>>), PCB_RENDER_PATH}
\* Default and commented-out arguments of pcb_render (lines 530-535, 698-702).
RenderWidths == {1600, 1000}
RenderHeights == {900, 800}
RenderSides == {"top", "bottom"}

NoCall == [fn |-> "none"]
NoResult == [cmd |-> <<>>, printed |-> <<>>, raised |-> FALSE]
NoFsCall == [op |-> "none"]

\* Nothing was called or invoked yet: the process runs one command.
Fresh == call = NoCall /\ fscall = NoFsCall /\ outcome = "idle"

Call_kicad_version ==
    /\ Fresh
    /\ \E exited \in ExitCodes :
        /\ call' = [fn |-> "kicad_version", exited |-> exited]
        /\ res' = kicad_version(exited)
    /\ UNCHANGED <<kicad, taskVars, fsVars>>

Call_schematic_erc ==
    /\ Fresh
    /\ \E report_path \in ReportPaths, exited \in ExitCodes :
        /\ call' = [fn |-> "schematic_erc", input |-> SCH_PATH,
                    report_path |-> report_path, exited |-> exited]
        /\ res' = schematic_erc(SCH_PATH, report_path, exited)
    /\ UNCHANGED <<kicad, taskVars, fsVars>>

Call_schematic_export_pdf ==
    /\ Fresh
    /\ \E exited \in ExitCodes :
        /\ call' = [fn |-> "schematic_export_pdf", input |-> SCH_PATH,
                    exited |-> exited]
        /\ res' = schematic_export_pdf(SCH_PATH, SCH_PDF_PATH, exited)
    /\ UNCHANGED <<kicad, taskVars, fsVars>>

Call_schematic_export_svg ==
    /\ Fresh
    /\ \E exited \in ExitCodes :
        /\ call' = [fn |-> "schematic_export_svg", input |-> SCH_PATH,
                    exited |-> exited]
        /\ res' = schematic_export_svg(SCH_PATH, SCH_SVG_PATH, exited)
    /\ UNCHANGED <<kicad, taskVars, fsVars>>

Call_schematic_export_bom ==
    /\ Fresh
    /\ \E exited \in ExitCodes :
        /\ call' = [fn |-> "schematic_export_bom", input |-> SCH_PATH,
                    exited |-> exited]
        /\ res' = schematic_export_bom(SCH_PATH, BOM_PATH, exited)
    /\ UNCHANGED <<kicad, taskVars, fsVars>>

Call_pcb_drc ==
    /\ Fresh
    /\ \E report_path \in ReportPaths, exited \in ExitCodes :
        /\ call' = [fn |-> "pcb_drc", input |-> PCB_PATH,
                    report_path |-> report_path, exited |-> exited]
        /\ res' = pcb_drc(PCB_PATH, report_path, exited)
    /\ UNCHANGED <<kicad, taskVars, fsVars>>

Call_pcb_export_gerbers ==
    /\ Fresh
    /\ \E layers \in LayerSets, exited \in ExitCodes :
        /\ call' = [fn |-> "pcb_export_gerbers", input |-> PCB_PATH,
                    layers |-> layers, exited |-> exited]
        /\ res' = pcb_export_gerbers(PCB_PATH, GERBERS_PATH, layers, exited)
    /\ UNCHANGED <<kicad, taskVars, fsVars>>

Call_pcb_export_odb ==
    /\ Fresh
    /\ \E exited \in ExitCodes :
        /\ call' = [fn |-> "pcb_export_odb", input |-> PCB_PATH, exited |-> exited]
        /\ res' = pcb_export_odb(PCB_PATH, ODB_PATH, exited)
    /\ UNCHANGED <<kicad, taskVars, fsVars>>

Call_pcb_export_pdf ==
    /\ Fresh
    /\ \E layers \in LayerSets, mirror \in BOOLEAN, multipage \in BOOLEAN,
       black_and_white \in BOOLEAN, exited \in ExitCodes :
        /\ call' = [fn |-> "pcb_export_pdf", input |-> PCB_PATH, layers |-> layers,
                    mirror |-> mirror, multipage |-> multipage,
                    black_and_white |-> black_and_white, exited |-> exited]
        /\ res' = pcb_export_pdf(PCB_PATH, PCB_PDF_PATH, layers, mirror, multipage,
                                 black_and_white, exited)
    /\ UNCHANGED <<kicad, taskVars, fsVars>>

Call_pcb_export_drill ==
    /\ Fresh
    /\ \E exited \in ExitCodes :
        /\ call' = [fn |-> "pcb_export_drill", input |-> PCB_PATH, exited |-> exited]
        /\ res' = pcb_export_drill(PCB_PATH, DRILL_FILES_PATH, exited)
    /\ UNCHANGED <<kicad, taskVars, fsVars>>

Call_pcb_export_ipcd356 ==
    /\ Fresh
    /\ \E exited \in ExitCodes :
        /\ call' = [fn |-> "pcb_export_ipcd356", input |-> PCB_PATH, exited |-> exited]
        /\ res' = pcb_export_ipcd356(PCB_PATH, IPCD356_PATH, exited)
    /\ UNCHANGED <<kicad, taskVars, fsVars>>

Call_pcb_export_pos ==
    /\ Fresh
    /\ \E exited \in ExitCodes :
        /\ call' = [fn |-> "pcb_export_pos", input |-> PCB_PATH, exited |-> exited]
        /\ res' = pcb_export_pos(PCB_PATH, POSITION_PATH, exited)
    /\ UNCHANGED <<kicad, taskVars, fsVars>>

Call_pcb_render ==
    /\ Fresh
    /\ \E render_path \in RenderPaths, width \in RenderWidths, height \in RenderHeights,
       side \in RenderSides, perspective \in BOOLEAN, exited \in ExitCodes :
        /\ call' = [fn |-> "pcb_render", input |-> PCB_PATH, side |-> side,
                    width |-> width, height |-> height,
                    perspective |-> perspective, exited |-> exited]
        /\ res' = pcb_render(PCB_PATH, render_path, width, height, side, "default",
                             perspective, 1, exited)
    /\ UNCHANGED <<kicad, taskVars, fsVars>>

(***************************************************************************)
(* Task entry points env, check and release (tasks.py lines 588-683).  A   *)
(* task body is the sequence of the calls it makes, each with the          *)
(* arguments the source passes.                                            *)
(***************************************************************************)
\* dpi of the full-resolution PNG and scale of the thumbnail.
ReleaseDpi == 300
ReleaseScale == 500

env_body == <<[fn |-> "kicad_version"]>>

check_body ==
    <<[fn |-> "schematic_erc", schematic_path |-> SCH_PATH,
       report_path |-> ERC_REPORT_PATH],
      [fn |-> "pcb_drc", pcb_path |-> PCB_PATH, report_path |-> DRC_REPORT_PATH]>>

release_body ==
    <<[fn |-> "schematic_export_pdf", schematic_path |-> SCH_PATH,
       pdf_path |-> SCH_PDF_PATH],
      [fn |-> "schematic_export_svg", schematic_path |-> SCH_PATH,
       svg_path |-> SCH_SVG_PATH],
      [fn |-> "svg_to_png",
       svg_path |-> Div(SCH_SVG_PATH, <<<<PROJECT_NAME, ".", "svg">>>>),
       png_path |-> WithSuffix(SCH_PNG_PATH, <<".", "png">>),
       scale |-> None, dpi |-> Some(ReleaseDpi)],
      [fn |-> "svg_to_png",
       svg_path |-> Div(SCH_SVG_PATH, <<<<PROJECT_NAME, ".", "svg">>>>),
       png_path |-> WithName(SCH_PNG_PATH,
                             Stem(Name(SCH_PNG_PATH)) \o <<"_thumbnail", ".", "png">>),
       scale |-> Some(ReleaseScale), dpi |-> None],
      [fn |-> "schematic_export_bom", schematic_path |-> SCH_PATH,
       bom_path |-> BOM_PATH],
      [fn |-> "pcb_export_gerbers", pcb_path |-> PCB_PATH,
       gerbers_path |-> GERBERS_PATH, layers |-> GerberLayers],
      [fn |-> "pcb_export_drill", pcb_path |-> PCB_PATH,
       drill_file_path |-> DRILL_FILES_PATH],
      [fn |-> "pcb_export_ipcd356", pcb_path |-> PCB_PATH,
       ipcd356_path |-> IPCD356_PATH],
      [fn |-> "pcb_export_pdf", pcb_path |-> PCB_PATH, pdf_path |-> PCB_PDF_PATH,
       layers |-> FrontLayers, mirror |-> FALSE, multipage |-> FALSE,
       black_and_white |-> TRUE],
      [fn |-> "pcb_export_pdf", pcb_path |-> PCB_PATH, pdf_path |-> PCB_PDF_PATH,
       layers |-> BackLayers, mirror |-> TRUE, multipage |-> FALSE,
       black_and_white |-> TRUE],
      [fn |-> "pcb_export_pos", pcb_path |-> PCB_PATH,
       position_path |-> POSITION_PATH]>>

\* Mutant of Pre: release declared without its pre-tasks.
PreNone(t) == <<>>

\* The pre-tasks of a task: @task(pre=[env, check]) on release.
Pre(t) == IF t = "release" THEN <<"env", "check">> ELSE <<>>

\* Mutant of Body: release skips the drill export.
BodySkipping(t) ==
    CASE t = "env" -> env_body
      [] t = "check" -> check_body
      [] t = "release" -> SubSeq(release_body, 1, 6) \o SubSeq(release_body, 8, 11)
      [] OTHER -> <<>>

Body(t) ==
    CASE t = "env" -> env_body
      [] t = "check" -> check_body
      [] t = "release" -> release_body
      [] OTHER -> <<>>

RECURSIVE Bodies(_)
Bodies(ts) == IF ts = <<>> THEN <<>> ELSE Body(Head(ts)) \o Bodies(Tail(ts))

\* What invoke runs for a task: the bodies of its pre-tasks in the order
\* declared, then its own body.
Plan(t) == Bodies(Pre(t)) \o Body(t)

\* The call a step makes, given what the subprocess or the libraries do.
RunStep(st, exited, svg) ==
    CASE st.fn = "kicad_version" -> kicad_version(exited)
      [] st.fn = "schematic_erc" ->
            schematic_erc(st.schematic_path, st.report_path, exited)
      [] st.fn = "pcb_drc" -> pcb_drc(st.pcb_path, st.report_path, exited)
      [] st.fn = "schematic_export_pdf" ->
            schematic_export_pdf(st.schematic_path, st.pdf_path, exited)
      [] st.fn = "schematic_export_svg" ->
            schematic_export_svg(st.schematic_path, st.svg_path, exited)
      [] st.fn = "svg_to_png" ->
            svg_to_png(st.svg_path, st.png_path, st.scale, st.dpi, FALSE, svg)
      [] st.fn = "schematic_export_bom" ->
            schematic_export_bom(st.schematic_path, st.bom_path, exited)
      [] st.fn = "pcb_export_gerbers" ->
            pcb_export_gerbers(st.pcb_path, st.gerbers_path, st.layers, exited)
      [] st.fn = "pcb_export_drill" ->
            pcb_export_drill(st.pcb_path, st.drill_file_path, exited)
      [] st.fn = "pcb_export_ipcd356" ->
            pcb_export_ipcd356(st.pcb_path, st.ipcd356_path, exited)
      [] st.fn = "pcb_export_pdf" ->
            pcb_export_pdf(st.pcb_path, st.pdf_path, st.layers, st.mirror,
                           st.multipage, st.black_and_white, exited)
      [] st.fn = "pcb_export_pos" ->
            pcb_export_pos(st.pcb_path, st.position_path, exited)

Tasks == {"env", "check", "release"}

\* `invoke <task>` on the command line.
Invoke ==
    \E t \in Tasks :
        /\ Fresh
        /\ task' = t
        /\ pc' = 1
        /\ steps' = <<>>
        /\ printed' = <<>>
        /\ outcome' = "running"
        /\ UNCHANGED <<kicad, toolVars, fsVars>>

\* A step that raised ends the invocation: the exception leaves the task
\* body and invoke exits non-zero.  A step that returned moves to the next.
Advance(plan, raised) ==
    [pc |-> IF raised THEN pc ELSE pc + 1,
     outcome |-> IF raised THEN "failed"
                 ELSE IF pc = Len(plan) THEN "success" ELSE "running"]

\* The next call of the running task.
Step ==
    /\ outcome = "running"
    /\ pc <= Len(Plan(task))
    /\ \E exited \in ExitCodes, svg \in SvgOutcomes :
        LET st == Plan(task)[pc]
            r == RunStep(st, exited, svg)
            next == Advance(Plan(task), r.raised)
        IN /\ steps' = Append(steps,
                              [step |-> st, at |-> pc, cmd |-> r.cmd,
                               raised |-> r.raised,
                               env |-> IF st.fn = "svg_to_png"
                                       THEN [svg |-> svg]
                                       ELSE [exited |-> exited]])
           /\ printed' = printed \o r.printed
           /\ pc' = next.pc
           /\ outcome' = next.outcome
    /\ UNCHANGED <<kicad, task, toolVars, fsVars>>

\* The destination paths of the two conversions of release.
PngPaths == {release_body[3].png_path, release_body[4].png_path}

\* What the destination file holds before a conversion.
PngStates == {"absent", "old"}

\* What the destination file holds after a conversion with result r:
\* pixmap.save (line 203) is the only write.
PngAfter(dest, r) ==
    IF \E i \in 1..Len(r.effects) : r.effects[i] = "save" THEN "new" ELSE dest

\* A direct call of svg_to_png.
Call_svg_to_png ==
    /\ Fresh
    /\ \E png_path \in PngPaths, scale \in {None, Some(ReleaseScale)},
          dpi \in {None, Some(ReleaseDpi)}, alpha \in BOOLEAN,
          svg \in SvgOutcomes, dest \in PngStates :
        LET r == svg_to_png(Div(SCH_SVG_PATH, <<<<PROJECT_NAME, ".", "svg">>>>),
                            png_path, scale, dpi, alpha, svg)
        IN /\ call' = [fn |-> "svg_to_png", png_path |-> png_path, scale |-> scale,
                       dpi |-> dpi, alpha |-> alpha, svg |-> svg, dest |-> dest]
           /\ res' = [cmd |-> r.cmd, printed |-> r.printed, raised |-> r.raised,
                      exc |-> r.exc, effects |-> r.effects,
                      dest |-> PngAfter(dest, r)]
    /\ UNCHANGED <<kicad, taskVars, fsVars>>

(***************************************************************************)
(* The filesystem under the project directory.  Each path of Paths holds   *)
(* nothing ("absent"), a regular file, a symbolic link, a directory, or an *)
(* entry of another type ("other": a FIFO, a socket, a device).            *)
(***************************************************************************)
OUTPUT_DIR == <<<<"output">>>>
BACKUPS_PATH == <<<<PROJECT_NAME, "-backups">>>>
CACHE_PATH == <<<<"fp-info-cache">>>>

Paths == {OUTPUT_DIR, OUTPUT_PATH, REPORT_OUTPUT_PATH, BACKUPS_PATH, CACHE_PATH, SCH_PATH}

Kinds == {"absent", "file", "symlink", "dir", "other"}

\* p is q or lies below q.
Within(p, q) == Len(q) <= Len(p) /\ SubSeq(p, 1, Len(q)) = q

\* An entry exists only inside a directory that exists.
WellFormed(f) ==
    \A p \in Paths :
        (f[p] # "absent" /\ Len(p) > 1) => f[Parent(p)] = "dir"

FsStates ==
    {f \in [Paths -> Kinds] :
        /\ WellFormed(f)
        /\ f[OUTPUT_DIR] \in {"absent", "dir"}
        /\ f[REPORT_OUTPUT_PATH] \in {"absent", "dir"}
        /\ f[SCH_PATH] \in {"absent", "file"}}

KindOf(f, p) == IF p \in Paths THEN f[p] ELSE "absent"

(***************************************************************************)
(* rm (tasks.py lines 115-154).                                            *)
(***************************************************************************)
RECURSIVE Match(_, _)
\* fnmatch of a name against a pattern whose piece "*" matches any pieces.
Match(pattern, name) ==
    IF pattern = <<>> THEN name = <<>>
    ELSE IF Head(pattern) = "*"
    THEN \/ Match(Tail(pattern), name)
         \/ name # <<>> /\ Match(pattern, Tail(name))
    ELSE /\ name # <<>>
         /\ Head(pattern) = Head(name)
         /\ Match(Tail(pattern), Tail(name))

\* Mutant of Glob: every entry of the parent directory is yielded.
GlobAll(f, path) ==
    {p \in Paths :
        /\ Len(p) = Len(path)
        /\ Parent(p) = Parent(path)
        /\ f[p] # "absent"}

\* path.parent.glob(path.name): the entries of the parent directory whose
\* names match.
Glob(f, path) ==
    {p \in Paths :
        /\ Len(p) = Len(path)
        /\ Parent(p) = Parent(path)
        /\ f[p] # "absent"
        /\ Match(Name(path), Name(p))}

\* The orders in which a directory scan can yield the paths of S.
Orders(S) ==
    {o \in [1..Cardinality(S) -> S] : \A i, j \in 1..Cardinality(S) : o[i] = o[j] => i = j}

\* f without the entry p, and without p and all that lies below it.
Remove(f, p) == [q \in Paths |-> IF q = p THEN "absent" ELSE f[q]]
RemoveTree(f, p) == [q \in Paths |-> IF Within(q, p) THEN "absent" ELSE f[q]]

\* p.unlink(missing_ok): `vanished` says another process removed p after the
\* type test.
Unlink(f, p, missing_ok, vanished) ==
    [fs |-> Remove(f, p),
     exc |-> IF vanished /\ ~missing_ok THEN "FileNotFoundError" ELSE "none"]

\* shutil.rmtree(p, ignore_errors)
Rmtree(f, p, ignore_errors, vanished) ==
    [fs |-> RemoveTree(f, p),
     exc |-> IF vanished /\ ~ignore_errors THEN "FileNotFoundError" ELSE "none"]

\* The two except clauses of rm (lines 149-154): both re-raise unless force.
Except(e, force) == IF force THEN "none" ELSE e

\* Where a symbolic link at p points: the backups link to the output tree,
\* the cache link to the schematic, the output link to the backups.  The
\* target is a file, a directory, another link or nothing, as fs has it.
LinkTarget(p) ==
    CASE p = BACKUPS_PATH -> OUTPUT_PATH
      [] p = CACHE_PATH -> SCH_PATH
      [] p = OUTPUT_PATH -> BACKUPS_PATH
      [] OTHER -> p

RECURSIVE FollowKind(_, _, _)
\* The kind of what p is once links are followed, as stat() sees it; a
\* dangling link or a loop of links (n hops used up) is "absent".
FollowKind(f, p, n) ==
    IF KindOf(f, p) # "symlink" THEN KindOf(f, p)
    ELSE IF n = 0 THEN "absent"
    ELSE FollowKind(f, LinkTarget(p), n - 1)

\* Path.is_symlink() looks at the entry; is_file() and is_dir() follow links.
IsSymlink(f, p) == KindOf(f, p) = "symlink"
IsFile(f, p) == FollowKind(f, p, Cardinality(Paths)) = "file"
IsDir(f, p) == FollowKind(f, p, Cardinality(Paths)) = "dir"

\* Mutant of RmTry: the directory test is made before the symlink test.
RmTryDirFirst(f, p, recursive, force, vanished) ==
    IF IsDir(f, p)
    THEN IF recursive
         THEN Rmtree(f, p, force, vanished)
         ELSE [fs |-> f, exc |-> "IsADirectoryError"]
    ELSE IF IsSymlink(f, p) \/ IsFile(f, p)
    THEN Unlink(f, p, force, vanished)
    ELSE [fs |-> f, exc |-> IF force THEN "none" ELSE "OSError"]

\* The body of the try statement for one path (lines 137-148).
RmTry(f, p, recursive, force, vanished) ==
    IF IsSymlink(f, p) \/ IsFile(f, p)
    THEN Unlink(f, p, force, vanished)
    ELSE IF IsDir(f, p)
    THEN IF recursive
         THEN Rmtree(f, p, force, vanished)
         ELSE [fs |-> f, exc |-> "IsADirectoryError"]
    ELSE [fs |-> f, exc |-> IF force THEN "none" ELSE "OSError"]

RECURSIVE RmLoop(_, _, _, _, _)
\* The for loop of rm over `paths`: an exception that leaves the try
\* statement ends the loop.
RmLoop(f, paths, recursive, force, vanish) ==
    IF paths = <<>> THEN [fs |-> f, exc |-> "none"]
    ELSE LET p == Head(paths)
             r == RmTry(f, p, recursive, force, p \in vanish)
             e == Except(r.exc, force)
         IN IF e # "none" THEN [fs |-> r.fs, exc |-> e]
            ELSE RmLoop(r.fs, Tail(paths), recursive, force, vanish)

\* Mutant of rm: force is not honoured.
rmNoForce(f, path, recursive, force, use_glob, order, vanish) ==
    LET paths == IF use_glob THEN order ELSE <<path>>
    IN RmLoop(f, paths, recursive, FALSE, vanish)

\* rm(path, recursive, force, use_glob).  `order` is the order in which the
\* glob yields its matches, `vanish` the paths that another process removes
\* between the type test and the deletion.
rm(f, path, recursive, force, use_glob, order, vanish) ==
    LET paths == IF use_glob THEN order ELSE <<path>>
    IN RmLoop(f, paths, recursive, force, vanish)

(***************************************************************************)
(* clean (tasks.py lines 565-585).                                         *)
(***************************************************************************)
\* Mutant of CleanPaths: the flags are not looked at.
CleanPathsAll(kicad_backups, kicad_cache_files, all) ==
    <<OUTPUT_PATH, BACKUPS_PATH, CACHE_PATH>>

\* The list `paths` of clean.
CleanPaths(kicad_backups, kicad_cache_files, all) ==
    <<OUTPUT_PATH>>
    \o (IF kicad_backups \/ all THEN <<BACKUPS_PATH>> ELSE <<>>)
    \o (IF kicad_cache_files \/ all THEN <<CACHE_PATH>> ELSE <<>>)

RECURSIVE CleanLoop(_, _, _)
\* for path in paths: rm(path, recursive=True, force=True)
CleanLoop(f, paths, vanish) ==
    IF paths = <<>> THEN [fs |-> f, exc |-> "none"]
    ELSE LET r == rm(f, Head(paths), TRUE, TRUE, FALSE, <<>>, vanish)
         IN IF r.exc # "none" THEN r
            ELSE CleanLoop(r.fs, Tail(paths), vanish)

clean(f, kicad_backups, kicad_cache_files, all, vanish) ==
    CleanLoop(f, CleanPaths(kicad_backups, kicad_cache_files, all), vanish)

\* The paths and patterns rm is called with.
Patterns ==
    { <<<<"*">>>>,
      <<<<PROJECT_NAME, "*">>>>,
      <<<<"*", "-backups">>>>,
      <<<<"output">>, <<"*">>>>,
      <<<<"fp-info-cache", "*">>>> }

RmArgs == Paths \cup Patterns

\* The sets of paths another process can remove during a call on S.
Vanishing(S) == {V \in SUBSET S : Cardinality(V) <= MaxVanish}

\* The paths a call of rm works on.
Resolved(f, path, use_glob) == IF use_glob THEN Glob(f, path) ELSE {path}

\* A direct call of rm.
CallRm ==
    /\ Fresh
    /\ \E path \in RmArgs, recursive \in BOOLEAN, force \in BOOLEAN,
          use_glob \in BOOLEAN :
        \E order \in Orders(Resolved(fs, path, use_glob)),
           vanish \in Vanishing(Resolved(fs, path, use_glob)) :
            LET r == rm(fs, path, recursive, force, use_glob, order, vanish)
            IN /\ fscall' = [op |-> "rm", path |-> path, recursive |-> recursive,
                             force |-> force, use_glob |-> use_glob,
                             paths |-> Resolved(fs, path, use_glob),
                             vanish |-> vanish]
               /\ fs0' = fs
               /\ fs' = r.fs
               /\ exc' = r.exc
    /\ UNCHANGED <<kicad, toolVars, taskVars>>

\* `invoke clean` with its flags.
Clean ==
    /\ Fresh
    /\ \E kicad_backups \in BOOLEAN, kicad_cache_files \in BOOLEAN, all \in BOOLEAN :
        \E vanish \in Vanishing({OUTPUT_PATH, BACKUPS_PATH, CACHE_PATH}) :
            LET r == clean(fs, kicad_backups, kicad_cache_files, all, vanish)
            IN /\ fscall' = [op |-> "clean", kicad_backups |-> kicad_backups,
                             kicad_cache_files |-> kicad_cache_files, all |-> all,
                             vanish |-> vanish]
               /\ fs0' = fs
               /\ fs' = r.fs
               /\ exc' = r.exc
               /\ task' = "clean"
               /\ pc' = 1
               /\ steps' = <<>>
               /\ printed' = <<>>
               /\ outcome' = IF r.exc = "none" THEN "success" ELSE "failed"
    /\ UNCHANGED <<kicad, toolVars>>

(***************************************************************************)
(* Specifications.                                                         *)
(***************************************************************************)
\* The project directory of a fresh checkout after a build.
FsBuilt ==
    [p \in Paths |->
        IF p \in {OUTPUT_DIR, OUTPUT_PATH, REPORT_OUTPUT_PATH, BACKUPS_PATH} THEN "dir"
        ELSE "file"]

InitCommon ==
    /\ kicad \in KicadCliPaths
    /\ call = NoCall
    /\ res = NoResult
    /\ task = "none"
    /\ pc = 1
    /\ steps = <<>>
    /\ printed = <<>>
    /\ outcome = "idle"
    /\ fscall = NoFsCall
    /\ exc = "none"

\* Direct calls of the tool invocation functions.
InitTool == InitCommon /\ fs = FsBuilt /\ fs0 = FsBuilt

\* A direct call of one of the functions.
NextTool ==
    \/ Call_kicad_version
    \/ Call_schematic_erc
    \/ Call_schematic_export_pdf
    \/ Call_schematic_export_svg
    \/ Call_schematic_export_bom
    \/ Call_pcb_drc
    \/ Call_pcb_export_gerbers
    \/ Call_pcb_export_odb
    \/ Call_pcb_export_pdf
    \/ Call_pcb_export_drill
    \/ Call_pcb_export_ipcd356
    \/ Call_pcb_export_pos
    \/ Call_pcb_render

SpecTool == InitTool /\ [][NextTool]_vars

\* Direct calls of the raster conversion helper.
InitSvg == InitCommon /\ fs = FsBuilt /\ fs0 = FsBuilt

NextSvg == Call_svg_to_png

SpecSvg == InitSvg /\ [][NextSvg]_vars

\* Runs of the tasks.
InitTask == InitCommon /\ fs = FsBuilt /\ fs0 = FsBuilt

NextTask == Invoke \/ Step \/ Clean

SpecTask == InitTask /\ [][NextTask]_vars

\* rm and clean on every filesystem.
InitFs == InitCommon /\ kicad = "kicad-cli" /\ fs \in FsStates /\ fs0 = fs

NextFs == CallRm \/ Clean

SpecFs == InitFs /\ [][NextFs]_vars

\* Everything the module can do.
Init == InitTask

Next == NextTool \/ NextSvg \/ NextTask \/ CallRm

Spec == Init /\ [][Next]_vars

(***************************************************************************)
(* Properties of the tool invocation functions (SpecTool).                 *)
(***************************************************************************)
CheckFns == {"schematic_erc", "pcb_drc"}

\* The line has the piece w.
HasPiece(line, w) == \E j \in 1..Len(line) : line[j] = w

\* The line is an error diagnostic.
IsErrorLine(line) == line # <<>> /\ line[1] = "\nERROR: "

\* C2: when the subprocess of schematic_erc or pcb_drc exits with status 5,
\* the function prints a line that holds the report path it was called with
\* and raises; it does not return normally.
C2_ViolationsReported ==
    (call.fn \in CheckFns /\ call.exited = ViolationCode) =>
        /\ res.raised
        /\ \E i \in 1..Len(res.printed) :
              HasPiece(res.printed[i], PathStr(call.report_path))

C2_Witness ==
    /\ call.fn = "pcb_drc"
    /\ call.exited = ViolationCode
    /\ call.report_path = DRC_REPORT_PATH
    /\ res.raised

\* C3: in every tool invocation function a non-zero exit status other than
\* the documented one (5 for ERC and DRC) prints an "unexpected exit code"
\* diagnostic holding the status and raises; the function returns normally
\* exactly on status 0, and then prints no error diagnostic.
C3_UnexpectedExit ==
    call.fn # "none" =>
        /\ res.raised <=> call.exited # 0
        /\ (call.exited # 0 /\ ~(call.fn \in CheckFns /\ call.exited = ViolationCode)) =>
              \E i \in 1..Len(res.printed) :
                  /\ IsErrorLine(res.printed[i])
                  /\ HasPiece(res.printed[i], "unexpected exit code")
                  /\ HasPiece(res.printed[i], ToString(call.exited))
        /\ call.exited = 0 =>
              \A i \in 1..Len(res.printed) : ~IsErrorLine(res.printed[i])

C3_Witness ==
    /\ call.fn = "pcb_export_pdf"
    /\ call.exited = 1
    /\ res.raised
    /\ \E i \in 1..Len(res.printed) : HasPiece(res.printed[i], "unexpected exit code")

\* The functions that take an input design file.
InputFns ==
    {"schematic_erc", "schematic_export_pdf", "schematic_export_svg",
     "schematic_export_bom", "pcb_drc", "pcb_export_gerbers", "pcb_export_odb",
     "pcb_export_pdf", "pcb_export_drill", "pcb_export_ipcd356", "pcb_export_pos",
     "pcb_render"}

\* The token is the input path of the call, quoted or not.
IsInput(token) == Unquote(token) = <<PathStr(call.input)>>

\* C10 as claimed: the input path is the last token of the command line and
\* every flag precedes it, in every function that takes an input file.
C10_InputPathLast ==
    call.fn \in InputFns =>
        LET toks == Tokens(res.cmd)
        IN /\ IsInput(toks[Len(toks)])
           /\ \A i \in 1..Len(toks) : IsFlag(toks[i]) => i < Len(toks)

\* The flags pcb_export_pdf and pcb_render append after the input path.
Appended ==
    CASE call.fn = "pcb_export_pdf" ->
            (IF call.mirror THEN <<Flag("mirror")>> ELSE <<>>)
            \o (IF call.multipage THEN <<Flag("mode-multipage")>>
                ELSE <<Flag("mode-separate")>>)
            \o (IF call.black_and_white THEN <<Flag("black-and-white")>> ELSE <<>>)
      [] call.fn = "pcb_render" ->
            IF call.perspective THEN <<Flag("perspective")>> ELSE <<>>
      [] OTHER -> <<>>

\* C10 amended: the command line is <tool> <words...> <flags...> <input-path>
\* followed by nothing, except in pcb_export_pdf (--mirror if set, the mode
\* flag, --black-and-white if set) and in pcb_render (--perspective if set),
\* where those flags follow the input path.
C10_InputPathThenOptions ==
    call.fn \in InputFns =>
        LET toks == Tokens(res.cmd)
            at == {i \in 1..Len(toks) : IsInput(toks[i])}
        IN /\ Cardinality(at) = 1
           /\ toks[1] = <<kicad>>
           /\ \A k \in at :
                /\ SubSeq(toks, k + 1, Len(toks)) = Appended
                /\ \E m \in 2..(k - 1) :
                      /\ \A i \in 1..m : ~IsFlag(toks[i])
                      /\ \A i \in (m + 1)..(k - 1) : IsFlag(toks[i])
           /\ (call.fn \notin {"pcb_export_pdf", "pcb_render"}) =>
                IsInput(toks[Len(toks)])

C10_Witness ==
    /\ call.fn = "pcb_export_pdf"
    /\ call.mirror
    /\ ~call.multipage
    /\ call.black_and_white
    /\ Tokens(res.cmd)[Len(Tokens(res.cmd))] = Flag("black-and-white")

(***************************************************************************)
(* Properties of the task runs (SpecTask).                                 *)
(***************************************************************************)
\* The order of the calls of a release invocation.
ReleaseOrder ==
    <<"kicad_version", "schematic_erc", "pcb_drc",
      "schematic_export_pdf", "schematic_export_svg", "svg_to_png", "svg_to_png",
      "schematic_export_bom", "pcb_export_gerbers", "pcb_export_drill",
      "pcb_export_ipcd356", "pcb_export_pdf", "pcb_export_pdf", "pcb_export_pos">>

\* What the subprocess or the libraries did made the step fail.
EnvFailed(s) ==
    IF s.step.fn = "svg_to_png" THEN s.env.svg # "ok" ELSE s.env.exited # 0

\* C1: a release invocation attempts the version query, ERC, DRC and then the
\* export and conversion steps in that order; a step fails exactly when its
\* subprocess exits non-zero or the conversion raises; no step runs after a
\* failed one, so no export runs once ERC or DRC failed; and an invocation
\* with a failed step ends failed, never successful.
C1_ReleaseAbortsOnFailure ==
    task = "release" =>
        /\ Len(steps) <= Len(ReleaseOrder)
        /\ \A i \in 1..Len(steps) :
              /\ steps[i].step.fn = ReleaseOrder[i]
              /\ steps[i].raised <=> EnvFailed(steps[i])
              /\ steps[i].raised => i = Len(steps)
        /\ (\E i \in 1..Len(steps) : steps[i].raised) <=> outcome = "failed"
        /\ (\E i \in 1..Len(steps) : steps[i].raised /\ steps[i].step.fn \in CheckFns) =>
              \A j \in 1..Len(steps) : j <= 3
        /\ outcome = "success" => Len(steps) = Len(ReleaseOrder)

C1_Witness ==
    /\ task = "release"
    /\ outcome = "failed"
    /\ Len(steps) = 3
    /\ steps[3].step.fn = "pcb_drc"
    /\ steps[3].env.exited = ViolationCode

\* The command line of step s has the flag.
RanWith(s, flag) ==
    \E k \in 1..Len(Tokens(s.cmd)) : Tokens(s.cmd)[k] = flag

\* C8: the body of a release run in which every step succeeds makes exactly
\* these calls, once each, in this order: schematic PDF, schematic SVG, PNG
\* with dpi, thumbnail PNG with scale, BOM, Gerbers, drill, IPC-D-356, board
\* PDF of the front layers without mirror, board PDF of the back layers with
\* mirror, position file; and no task ever calls the ODB++ export or the
\* render.
C8_ReleaseSteps ==
    /\ \A i \in 1..Len(steps) :
          steps[i].step.fn \notin {"pcb_export_odb", "pcb_render"}
    /\ (task = "release" /\ outcome = "success") =>
          LET body == SubSeq(steps, 4, Len(steps))
          IN /\ [i \in 1..Len(body) |-> body[i].step.fn] =
                  <<"schematic_export_pdf", "schematic_export_svg", "svg_to_png",
                    "svg_to_png", "schematic_export_bom", "pcb_export_gerbers",
                    "pcb_export_drill", "pcb_export_ipcd356", "pcb_export_pdf",
                    "pcb_export_pdf", "pcb_export_pos">>
             /\ body[3].step.dpi # None /\ body[3].step.scale = None
             /\ body[4].step.scale # None /\ body[4].step.dpi = None
             /\ RanWith(body[9], FlagV("layers", FrontLayers))
             /\ ~RanWith(body[9], Flag("mirror"))
             /\ RanWith(body[10], FlagV("layers", BackLayers))
             /\ RanWith(body[10], Flag("mirror"))

C8_Witness ==
    /\ task = "release"
    /\ outcome = "success"
    /\ Len(steps) = 14
    /\ steps[14].step.fn = "pcb_export_pos"

\* The output path argument of a call (none for the version query).
OutputOf(st) ==
    CASE st.fn \in CheckFns -> {st.report_path}
      [] st.fn = "schematic_export_pdf" -> {st.pdf_path}
      [] st.fn = "schematic_export_svg" -> {st.svg_path}
      [] st.fn = "svg_to_png" -> {st.png_path}
      [] st.fn = "schematic_export_bom" -> {st.bom_path}
      [] st.fn = "pcb_export_gerbers" -> {st.gerbers_path}
      [] st.fn = "pcb_export_drill" -> {st.drill_file_path}
      [] st.fn = "pcb_export_ipcd356" -> {st.ipcd356_path}
      [] st.fn = "pcb_export_pdf" -> {st.pdf_path}
      [] st.fn = "pcb_export_pos" -> {st.position_path}
      [] OTHER -> {}

\* Steps i and j of the run were given the same output path.
SameOutput(i, j) ==
    \E a \in OutputOf(steps[i].step), b \in OutputOf(steps[j].step) :
        PathStr(a) = PathStr(b)

\* C9 as claimed: no two steps of check and release are given the same
\* output path argument.
C9_DisjointOutputs ==
    task \in {"check", "release"} =>
        \A i, j \in 1..Len(steps) : i < j => ~SameOutput(i, j)

\* C9 amended: no two steps of check and release are given the same output
\* path argument, except the two board PDF exports, which are both given
\* PCB_PDF_PATH and differ in their layer sets.
C9_DisjointOutputsButBoardPdf ==
    task \in {"check", "release"} =>
        \A i, j \in 1..Len(steps) :
            (i < j /\ SameOutput(i, j)) =>
                /\ steps[i].step.fn = "pcb_export_pdf"
                /\ steps[j].step.fn = "pcb_export_pdf"
                /\ steps[i].step.pdf_path = PCB_PDF_PATH
                /\ steps[i].step.layers # steps[j].step.layers

C9_Witness ==
    /\ task = "release"
    /\ Len(steps) = 14
    /\ SameOutput(12, 13)
    /\ ~SameOutput(6, 7)

(***************************************************************************)
(* Properties of rm and clean (SpecFs).                                    *)
(***************************************************************************)
\* C4: rm with recursive=False on a path that is an existing directory
\* raises IsADirectoryError, whatever force and use_glob are, and leaves the
\* directory in place.
C4_DirectoryNeedsRecursive ==
    (fscall.op = "rm" /\ ~fscall.recursive) =>
        \A p \in fscall.paths :
            (fscall.paths = {p} /\ KindOf(fs0, p) = "dir") =>
                /\ exc = "IsADirectoryError"
                /\ fs[p] = "dir"

\* The name of p matches the pattern the call was given, in its directory.
Matched(p) ==
    /\ Len(p) = Len(fscall.path)
    /\ Parent(p) = Parent(fscall.path)
    /\ fs0[p] # "absent"
    /\ Match(Name(fscall.path), Name(p))

\* p is a matched path or lies below one.
InMatched(p) == \E q \in Paths : Matched(q) /\ Within(p, q)

\* C5 as claimed: after rm with use_glob=True, whatever recursive and force
\* are and whatever mix of files, symlinks and directories matched, every
\* matched path is gone and every other path is unchanged.
C5_GlobRemovesAllMatched ==
    (/\ fscall.op = "rm"
     /\ fscall.use_glob
     /\ fscall.vanish = {}
     /\ \A p \in Paths : Matched(p) => fs0[p] \in {"file", "symlink", "dir"}) =>
        \A p \in Paths :
            /\ Matched(p) => fs[p] = "absent"
            /\ ~InMatched(p) => fs[p] = fs0[p]

\* C5 amended: rm with use_glob=True changes only paths that match the
\* pattern or lie below a matched directory; when it returns without
\* raising, every matched file and symlink is gone and, if recursive, every
\* matched directory with all below it; without recursive a matched
\* directory stays in place.
C5_GlobRemovesOnlyMatched ==
    (fscall.op = "rm" /\ fscall.use_glob) =>
        \A p \in Paths :
            /\ ~InMatched(p) => fs[p] = fs0[p]
            /\ fs[p] \in {fs0[p], "absent"}
            /\ (exc = "none" /\ Matched(p) /\ fs0[p] \in {"file", "symlink"}) =>
                  fs[p] = "absent"
            /\ (exc = "none" /\ fscall.recursive /\ Matched(p) /\ fs0[p] = "dir") =>
                  \A q \in Paths : Within(q, p) => fs[q] = "absent"
            /\ (~fscall.recursive /\ Matched(p) /\ fs0[p] = "dir") => fs[p] = "dir"

C5_Witness ==
    /\ fscall.op = "rm"
    /\ fscall.use_glob
    /\ fscall.recursive
    /\ fscall.path = <<<<"*">>>>
    /\ fs0[OUTPUT_DIR] = "dir" /\ fs0[OUTPUT_PATH] = "dir"
    /\ fs0[BACKUPS_PATH] = "symlink"
    /\ fs0[CACHE_PATH] = "file"
    /\ fs0[SCH_PATH] = "file"
    /\ exc = "none"
    /\ \A p \in Paths : fs[p] = "absent"

\* C6: rm with force=True on a path that does not exist, or that another
\* process removes between the type test and the deletion, does not raise,
\* whatever recursive and use_glob are; on a path that does not exist it
\* leaves the filesystem as it was.
C6_ForceToleratesMissing ==
    (fscall.op = "rm" /\ fscall.force) =>
        /\ (\A p \in fscall.paths : KindOf(fs0, p) = "absent" \/ p \in fscall.vanish) =>
              exc = "none"
        /\ (\A p \in fscall.paths : KindOf(fs0, p) = "absent") => fs = fs0

C6_Witness ==
    /\ fscall.op = "rm"
    /\ fscall.force
    /\ ~fscall.use_glob
    /\ fscall.path = CACHE_PATH
    /\ fs0[CACHE_PATH] = "absent"
    /\ fs0[BACKUPS_PATH] = "dir"
    /\ exc = "none"
    /\ fs = fs0

\* The paths clean has to remove under the flags of the call.
CleanTargets ==
    {OUTPUT_PATH}
    \cup (IF fscall.kicad_backups \/ fscall.all THEN {BACKUPS_PATH} ELSE {})
    \cup (IF fscall.kicad_cache_files \/ fscall.all THEN {CACHE_PATH} ELSE {})

\* C7: clean never raises and, for all flags and every filesystem, removes
\* the output directory tree, the backups directory iff kicad_backups or all,
\* and fp-info-cache iff kicad_cache_files or all, each being a file, a
\* symlink or a directory with all below it; every other path is untouched.
C7_CleanRemovesExactly ==
    fscall.op = "clean" =>
        /\ exc = "none"
        /\ outcome = "success"
        /\ \A p \in Paths :
              IF \E t \in CleanTargets :
                    Within(p, t) /\ fs0[t] \in {"file", "symlink", "dir"}
              THEN fs[p] = "absent"
              ELSE fs[p] = fs0[p]

C7_Witness ==
    /\ fscall.op = "clean"
    /\ fscall.kicad_backups /\ ~fscall.kicad_cache_files /\ ~fscall.all
    /\ fs0[OUTPUT_PATH] = "dir" /\ fs0[REPORT_OUTPUT_PATH] = "dir"
    /\ fs0[BACKUPS_PATH] = "dir"
    /\ fs0[CACHE_PATH] = "file"
    /\ fs[OUTPUT_PATH] = "absent" /\ fs[REPORT_OUTPUT_PATH] = "absent"
    /\ fs[BACKUPS_PATH] = "absent"
    /\ fs[CACHE_PATH] = "file"
    /\ fs[OUTPUT_DIR] = "dir"

(***************************************************************************)
(* Properties of the raster conversion helper (SpecSvg).                   *)
(***************************************************************************)
\* C11: svg_to_png called with both scale and dpi raises ValueError before
\* the SVG is parsed, before anything is rendered, before the parent
\* directory of the destination is created and before the destination is
\* written; the destination file is as it was.
C11_ScaleAndDpiRejected ==
    (call.fn = "svg_to_png" /\ call.scale # None /\ call.dpi # None) =>
        /\ res.raised
        /\ res.exc = "ValueError"
        /\ \A i \in 1..Len(res.effects) :
              res.effects[i] \notin {"svg2rlg", "rescale", "drawToString", "load_page",
                                     "get_pixmap", "ensure_dir", "save"}
        /\ res.dest = call.dest

C11_Witness ==
    /\ call.fn = "svg_to_png"
    /\ call.scale = Some(ReleaseScale)
    /\ call.dpi = Some(ReleaseDpi)
    /\ call.svg = "ok"
    /\ call.dest = "old"
    /\ res.exc = "ValueError"
    /\ res.dest = "old"

(***************************************************************************)
(* Symbolic links under rm (SpecFs).                                       *)
(***************************************************************************)
\* C12: rm on a path that is a symbolic link removes the link and nothing
\* else, whatever recursive and force are and whatever the link points to
\* (a file, a directory, another link or nothing): the target and all below
\* it are as they were, and a link to a directory is removed without
\* recursive, with no error unless another process removed the link first.
C12_SymlinkOnlyUnlinked ==
    fscall.op = "rm" =>
        \A p \in fscall.paths :
            (fscall.paths = {p} /\ KindOf(fs0, p) = "symlink") =>
                /\ fs[p] = "absent"
                /\ \A q \in Paths : q # p => fs[q] = fs0[q]
                /\ fscall.vanish = {} => exc = "none"

C12_Witness ==
    /\ fscall.op = "rm"
    /\ fscall.path = BACKUPS_PATH
    /\ ~fscall.use_glob
    /\ ~fscall.recursive
    /\ ~fscall.force
    /\ fscall.vanish = {}
    /\ fs0[BACKUPS_PATH] = "symlink"
    /\ IsDir(fs0, BACKUPS_PATH)
    /\ fs0[REPORT_OUTPUT_PATH] = "dir"
    /\ exc = "none"
    /\ fs[BACKUPS_PATH] = "absent"
    /\ fs[OUTPUT_PATH] = "dir"
    /\ fs[REPORT_OUTPUT_PATH] = "dir"

=============================================================================
